---- MODULE Spec2Model ----
(***************************************************************************)
(* Model of the persistence layer of ConVdeVueltaAccountMgmnt:             *)
(* BaseRepository / UserRepository (SQLAlchemy ORM over PostgreSQL) and    *)
(* the BaseModel / User entity.  The "users" table is a set of rows; every *)
(* repository method is one action whose effect on the table is what the  *)
(* session's flush + commit (or rollback) of that method leaves behind.   *)
(***************************************************************************)
EXTENDS Integers, Sequences, FiniteSets, TLC

\* ---------------------------------------------------------------- bounds
MaxIds    == 2      \* size of the universe of primary keys (UUIDs)
MaxTime   == 1      \* the server clock runs over 0..MaxTime
MaxLimit  == 2      \* find_all is called with limit in 1..MaxLimit
MaxOffset == 2      \* and offset in 0..MaxOffset
MaxBatch  == 2      \* save_all is called with 1..MaxBatch entities
MaxOpen   == 2      \* a caller goes on while fewer than MaxOpen sessions are open
MaxConnects == 2    \* DynamoDBConnection.connect builds at most MaxConnects Connection objects
MaxMem    == 3      \* a MemoryConnection table holds at most MaxMem records

DefaultLimit == 100               \* limit: int = 100 of find_all / find_deleted
NULL   == -1                      \* SQL NULL / Python None
Ids    == 1..MaxIds
Emails == {1, 2}                  \* the e-mail addresses callers use: two distinct ones
Times  == 0..MaxTime

VARIABLES
    rows,      \* the committed content of table "users": a set of row records
    now,       \* the clock read by func.now() and datetime.utcnow()
    lastOp,    \* the last repository call: its name, arguments and outcome
    scan,      \* the run of find_all page calls made since the last write
    tx,        \* the 'async with repository.transaction()' scope of a caller
    sess,      \* a call's position in its session scope, and the open sessions
    pg,        \* the PostgreSQLConnection singleton: _engine, _session_factory, _connected
    dy,        \* a DynamoDBConnection: _connection, _connected
    mem,       \* a MemoryConnection: _connected, _tables
    ddb,       \* the items of a DynamoDB table, one per hash key
    calls      \* the create_user calls in progress: where each is, and its request

\* What lies around the table: the variables a repository call on an
\* established connection leaves alone.
infra == <<sess, pg, dy, mem, ddb, calls>>

vars == <<rows, now, lastOp, scan, tx, sess, pg, dy, mem, ddb, calls>>

\* ------------------------------------------------------------ the entity
\* Columns of User (BaseModel columns + email + enabled).
Columns == {"id", "created_at", "updated_at", "deleted_at", "email", "enabled"}

\* Attributes of the mapped class that hasattr() finds; "nickname" stands
\* for any keyword that is not an attribute of the class.
Attributes == Columns
UnknownKey == "nickname"

NoRow == [id |-> NULL, created_at |-> NULL, updated_at |-> NULL,
          deleted_at |-> NULL, email |-> NULL, enabled |-> FALSE]

\* soft_delete that leaves deleted_at as it was.
soft_delete_Forgets(e) == e

\* restore that leaves deleted_at as it was.
restore_Forgets(e) == e

\* BaseModel.soft_delete / restore / is_deleted
soft_delete(e) == [e EXCEPT !.deleted_at = now]
restore(e)     == [e EXCEPT !.deleted_at = NULL]
is_deleted(e)  == e.deleted_at # NULL

\* A transient User(email=..., enabled=..., id=...) built by the caller:
\* the timestamps are unset until the INSERT's defaults fill them.
Transient ==
    { [id |-> i, created_at |-> NULL, updated_at |-> NULL, deleted_at |-> NULL,
       email |-> m, enabled |-> b] :
         i \in Ids \cup {NULL}, m \in Emails, b \in BOOLEAN }

\* A detached entity: a row the caller loaded earlier and changed in memory
\* (attribute assignment, soft_delete(), restore()).
Detached ==
    UNION { { r, [r EXCEPT !.deleted_at = NULL], [r EXCEPT !.created_at = now] }
            \cup { [r EXCEPT !.email = m] : m \in Emails }
            \cup { [r EXCEPT !.enabled = b] : b \in BOOLEAN } :
            r \in rows }

Entities == Transient \cup Detached

\* ------------------------------------------------------ session primitives
\* session.get(model_class, id): primary-key lookup, no deleted_at filter.
Get(tbl, i) ==
    IF \E r \in tbl : r.id = i THEN CHOOSE r \in tbl : r.id = i ELSE NoRow

\* Constraints PostgreSQL checks when the flush reaches it: NOT NULL columns,
\* the primary key and the unique index on email.
NotNullOk(r) == r.id # NULL /\ r.email # NULL /\ r.created_at # NULL /\ r.updated_at # NULL

\* A table without the unique index on email.
UniqueOk_NoEmailIndex(tbl, r) == TRUE

UniqueOk(tbl, r) == \A q \in tbl : q.id = r.id \/ q.email # r.email

\* A unit of work that emits the UPDATE, and so fires onupdate, whether or
\* not an attribute changed.
FlushUpdate_AlwaysTouches(old, new) == [new EXCEPT !.updated_at = now]

\* The UPDATE the unit of work emits for a persistent object whose attributes
\* were assigned: only attributes whose value really changed are in SET, and
\* onupdate=func.now() fills updated_at when SET has other columns only.
FlushUpdate(old, new) ==
    LET changed == { c \in Columns : new[c] # old[c] }
    IN  IF changed = {} THEN old
        ELSE IF "updated_at" \in changed THEN new
        ELSE [new EXCEPT !.updated_at = now]

\* The INSERT for a pending object: unset id / created_at / updated_at take
\* their defaults (uuid4 is the fresh key i, func.now() the clock).
FlushInsert(e, i) ==
    [e EXCEPT !.id         = IF e.id = NULL THEN i ELSE e.id,
              !.created_at = IF e.created_at = NULL THEN now ELSE e.created_at,
              !.updated_at = IF e.updated_at = NULL THEN now ELSE e.updated_at]

FreshIds(tbl) == { i \in Ids : \A r \in tbl : r.id # i }

\* ------------------------------------------------------------- statements
\* The filter loop without its hasattr test: a keyword that is no attribute
\* matches no row.
Matches_Strict(r, filters) ==
    \A k \in DOMAIN filters : k \in Attributes /\ r[k] = filters[k]

\* WHERE clauses.  A filter set is a function from keyword to value;
\* 'if hasattr(self.model_class, key)' keeps the keywords that name an
\* attribute and drops the others.
Matches(r, filters) ==
    \A k \in DOMAIN filters : k \in Attributes => r[k] = filters[k]

NotDeleted(r) == r.deleted_at = NULL

\* select(...).where(...) as the set of rows it ranges over.
Select(tbl, filters, include_deleted) ==
    { r \in tbl : Matches(r, filters) /\ (include_deleted \/ NotDeleted(r)) }

\* All sequences that enumerate the set S once each.
RECURSIVE Perms(_)
Perms(S) ==
    IF S = {} THEN { <<>> }
    ELSE UNION { { <<x>> \o p : p \in Perms(S \ {x}) } : x \in S }

\* ORDER BY col DESC: PostgreSQL returns the rows with non-increasing col;
\* the relative order of rows with equal col is not determined by the
\* statement and may differ from one execution to the next.
OrderByDesc(S, col) ==
    { p \in Perms(S) :
        \A a, b \in 1..Len(p) : a < b => p[a][col] >= p[b][col] }

\* .limit(limit).offset(offset) applied to an ordered result.
Slice(p, limit, offset) ==
    SubSeq(p, offset + 1, IF offset + limit < Len(p) THEN offset + limit ELSE Len(p))

\* The results execute() may give for find_all's statement.
FindAllResults(tbl, limit, offset, include_deleted) ==
    { Slice(p, limit, offset) :
        p \in OrderByDesc(Select(tbl, <<>>, include_deleted), "created_at") }

\* The results execute() may give for find_by's statement.
FindByResults(tbl, filters, include_deleted) ==
    OrderByDesc(Select(tbl, filters, include_deleted), "created_at")

\* find_deleted's statement without its 'deleted_at IS NOT NULL' condition.
FindDeletedResults_Unfiltered(tbl, limit, offset) ==
    { Slice(p, limit, offset) : p \in OrderByDesc(tbl, "deleted_at") }

\* The results execute() may give for find_deleted's statement.
FindDeletedResults(tbl, limit, offset) ==
    { Slice(p, limit, offset) :
        p \in OrderByDesc({ r \in tbl : r.deleted_at # NULL }, "deleted_at") }

\* find_by_id's statement; scalar_one_or_none() of at most one row.
FindById(tbl, i, include_deleted) ==
    LET S == { r \in Select(tbl, <<>>, include_deleted) : r.id = i }
    IN  IF S = {} THEN NoRow ELSE CHOOSE r \in S : TRUE

\* count with the deleted_at IS NULL condition find_by has.
CountOf_ActiveOnly(S, filters) ==
    Cardinality({ r \in S : Matches(r, filters) /\ NotDeleted(r) })

\* count's statement: COUNT(id) over the filtered rows, with no deleted_at
\* condition.
RECURSIVE CountOf(_, _)
CountOf(S, filters) ==
    IF S = {} THEN 0
    ELSE LET r == CHOOSE x \in S : TRUE
         IN  (IF Matches(r, filters) THEN 1 ELSE 0) + CountOf(S \ {r}, filters)

\* exists_by's statement: filtered, LIMIT 1, no deleted_at condition.
ExistsBy(tbl, filters) == \E r \in tbl : Matches(r, filters)

\* --------------------------------------------------------- bookkeeping
\* The record kept of the step just taken when it was a repository call
\* (NoCall when it was not): its name, its boolean option
\* (hard_delete / include_deleted), the keyword arguments of a query, and the
\* outcome: ok = returned without raising, flag = the boolean returned (for
\* update_by_id: whether an entity was returned), list = the list returned.
Call(op, opt, kw, ok, flag, list) ==
    [op |-> op, opt |-> opt, kw |-> kw, ok |-> ok, flag |-> flag, list |-> list]

NoCall == Call("none", FALSE, <<>>, TRUE, FALSE, <<>>)

IdleScan == [k |-> 0, off |-> 0, acc |-> <<>>, done |-> FALSE]
NoTx     == [state |-> "none", saved |-> {}, pending |-> {}]
IdleSess == [pc |-> "idle", open |-> 0, before |-> 0, exit |-> "none"]
\* The connections as constructed.  _engine / _session_factory: whether the
\* attribute holds an object; _connection: 0 for None, n for the n-th
\* Connection object built since.
NoPg     == [engine |-> FALSE, session_factory |-> FALSE, connected |-> FALSE]
NoDy     == [connection |-> 0, connected |-> FALSE]
\* MemoryConnection.__init__: _tables is the empty dict, a function from
\* table names to lists of records.
NoMem    == [connected |-> FALSE, tables |-> <<>>]
\* The tasks that run UserServiceImpl.create_user, and a task that runs none.
Callers   == {1, 2}
NoRequest == [pc |-> "idle", email |-> NULL, enabled |-> FALSE]

Init ==
    /\ rows = {}
    /\ now = 0
    /\ lastOp = NoCall
    /\ scan = IdleScan
    /\ tx = NoTx
    /\ sess = IdleSess
    /\ pg = NoPg
    /\ dy = NoDy
    /\ mem = NoMem
    /\ ddb = {}
    /\ calls = [p \in Callers |-> NoRequest]

\* Time passes on the database server.
Tick ==
    /\ now < MaxTime
    /\ now' = now + 1
    /\ lastOp' = NoCall
    /\ UNCHANGED <<rows, scan, tx, infra>>

\* ------------------------------------------------------ BaseRepository
\* The attribute copy of save's update branch: every column except id and
\* created_at is assigned from the entity.
\* The copy with 'email' wrongly in the list of columns left alone.
CopyColumns_SkipsEmail(existing, e) ==
    [c \in Columns |-> IF c \in {"id", "created_at", "email"} THEN existing[c] ELSE e[c]]

\* The copy with 'created_at' missing from the list of columns left alone.
CopyColumns_AlsoCreatedAt(existing, e) ==
    [c \in Columns |-> IF c \in {"id"} THEN existing[c] ELSE e[c]]

CopyColumns(existing, e) ==
    [c \in Columns |-> IF c \in {"id", "created_at"} THEN existing[c] ELSE e[c]]

\* What a call leaves behind: the table, whether it returned normally, the
\* entity / boolean it returned, and the caller's entity object after it.
Outcome(tbl, ok, ret, flag, e) ==
    [rows |-> tbl, ok |-> ok, ret |-> ret, flag |-> flag, e |-> e]

\* An IntegrityError at commit: _get_session rolls back and re-raises.
Raised(e) == Outcome(rows, FALSE, NoRow, FALSE, e)

\* BaseRepository.save.  The update branch returns the refreshed existing
\* row and leaves the caller's entity as it was; the insert branch refreshes
\* and returns the caller's entity.
SaveOutcomes(e) ==
    LET existing == IF e.id # NULL THEN Get(rows, e.id) ELSE NoRow
    IN  IF existing # NoRow
        THEN LET upd == FlushUpdate(existing, CopyColumns(existing, e))
             IN  IF NotNullOk(upd) /\ UniqueOk(rows, upd)
                 THEN { Outcome((rows \ {existing}) \cup {upd}, TRUE, upd, FALSE, e) }
                 ELSE { Raised(e) }
        ELSE { LET ins == FlushInsert(e, i)
               IN  IF NotNullOk(ins) /\ UniqueOk(rows, ins)
                   THEN Outcome(rows \cup {ins}, TRUE, ins, FALSE, ins)
                   ELSE Raised(e) :
               i \in (IF e.id = NULL THEN FreshIds(rows) ELSE {e.id}) }

save(e) ==
    \E out \in SaveOutcomes(e) :
        /\ rows' = out.rows
        /\ lastOp' = Call("save", FALSE, <<>>, out.ok, FALSE, <<>>)
        /\ scan' = IdleScan
        /\ UNCHANGED <<now, tx, infra>>

\* delete_by_id that soft-deletes whatever hard_delete says.
DeleteByIdOutcome_AlwaysSoft(i, hard_delete) ==
    LET entity == Get(rows, i)
    IN  IF entity # NoRow
        THEN Outcome((rows \ {entity}) \cup {FlushUpdate(entity, soft_delete(entity))},
                     TRUE, NoRow, TRUE, NoRow)
        ELSE Outcome(rows, TRUE, NoRow, FALSE, NoRow)

\* The lists of entities callers pass to save_all.
Batches == UNION { [1..n -> Transient] : n \in 1..MaxBatch }

\* The lists of new users, built with the column default enabled=True, that
\* callers pass to save_all.
UserBatches == UNION { [1..n -> { e \in Transient : e.enabled }] : n \in 1..MaxBatch }

\* The primary keys the INSERTs of a batch use: the entity's own id, or a
\* uuid4 default that is neither stored nor used in the batch.
BatchIds(batch) ==
    { f \in [1..Len(batch) -> Ids] :
        /\ \A j \in 1..Len(batch) :
              IF batch[j].id # NULL THEN f[j] = batch[j].id ELSE f[j] \in FreshIds(rows)
        /\ \A j, k \in 1..Len(batch) :
              (j # k /\ batch[j].id = NULL) => f[j] # f[k] }

\* save_all that commits entity by entity: the entities before the failing
\* one stay stored when the call raises.
SaveAllOutcomes_CommitsEach(batch) ==
    { LET ins == [j \in 1..Len(batch) |-> FlushInsert(batch[j], f[j])]
          good(j) == /\ NotNullOk(ins[j]) /\ UniqueOk(rows, ins[j]) /\ Get(rows, ins[j].id) = NoRow
                     /\ \A k \in 1..Len(batch) :
                           j # k => (ins[j].id # ins[k].id /\ UniqueOk({ins[k]}, ins[j]))
      IN  IF \A j \in 1..Len(batch) : good(j)
          THEN [rows |-> rows \cup { ins[j] : j \in 1..Len(batch) }, ok |-> TRUE, list |-> ins]
          ELSE [rows |-> rows \cup { ins[j] : j \in { k \in 1..Len(batch) :
                                        \A m \in 1..k : good(m) } },
                ok |-> FALSE, list |-> <<>>] :
      f \in BatchIds(batch) }

\* BaseRepository.save_all: add_all, one commit for the whole list (every
\* row of it gets the same func.now()), then a refresh of every entity.  A
\* constraint violation of any row fails the commit as a whole.
SaveAllOutcomes(batch) ==
    { LET ins == [j \in 1..Len(batch) |-> FlushInsert(batch[j], f[j])]
      IN  IF /\ \A j \in 1..Len(batch) :
                  NotNullOk(ins[j]) /\ UniqueOk(rows, ins[j]) /\ Get(rows, ins[j].id) = NoRow
             /\ \A j, k \in 1..Len(batch) :
                  j # k => (ins[j].id # ins[k].id /\ UniqueOk({ins[k]}, ins[j]))
          THEN [rows |-> rows \cup { ins[j] : j \in 1..Len(batch) }, ok |-> TRUE, list |-> ins]
          ELSE [rows |-> rows, ok |-> FALSE, list |-> <<>>] :
      f \in BatchIds(batch) }

save_all(batch) ==
    \E out \in SaveAllOutcomes(batch) :
        /\ rows' = out.rows
        /\ lastOp' = Call("save_all", FALSE, <<>>, out.ok, FALSE, out.list)
        /\ scan' = IdleScan
        /\ UNCHANGED <<now, tx, infra>>

\* BaseRepository.delete_by_id
DeleteByIdOutcome(i, hard_delete) ==
    LET entity == Get(rows, i)
    IN  IF entity # NoRow
        THEN IF hard_delete
             THEN Outcome(rows \ {entity}, TRUE, NoRow, TRUE, NoRow)
             ELSE Outcome((rows \ {entity}) \cup {FlushUpdate(entity, soft_delete(entity))},
                          TRUE, NoRow, TRUE, NoRow)
        ELSE Outcome(rows, TRUE, NoRow, FALSE, NoRow)

delete_by_id(i, hard_delete) ==
    LET out == DeleteByIdOutcome(i, hard_delete)
    IN  /\ rows' = out.rows
        /\ lastOp' = Call("delete_by_id", hard_delete, <<>>, out.ok, out.flag, <<>>)
        /\ scan' = IdleScan
        /\ UNCHANGED <<now, tx, infra>>

\* restore_by_id with 'if entity.is_deleted()' in place of
\* 'if entity and entity.is_deleted()': an AttributeError on None.
RestoreByIdOutcome_NoNoneCheck(i) ==
    LET entity == Get(rows, i)
    IN  IF entity = NoRow
        THEN Raised(NoRow)
        ELSE IF is_deleted(entity)
        THEN Outcome((rows \ {entity}) \cup {FlushUpdate(entity, restore(entity))},
                     TRUE, NoRow, TRUE, NoRow)
        ELSE Outcome(rows, TRUE, NoRow, FALSE, NoRow)

\* restore_by_id with 'if entity:' in place of
\* 'if entity and entity.is_deleted()'.
RestoreByIdOutcome_AnyRecord(i) ==
    LET entity == Get(rows, i)
    IN  IF entity # NoRow
        THEN Outcome((rows \ {entity}) \cup {FlushUpdate(entity, restore(entity))},
                     TRUE, NoRow, TRUE, NoRow)
        ELSE Outcome(rows, TRUE, NoRow, FALSE, NoRow)

\* BaseRepository.restore_by_id
RestoreByIdOutcome(i) ==
    LET entity == Get(rows, i)
    IN  IF entity # NoRow /\ is_deleted(entity)
        THEN Outcome((rows \ {entity}) \cup {FlushUpdate(entity, restore(entity))},
                     TRUE, NoRow, TRUE, NoRow)
        ELSE Outcome(rows, TRUE, NoRow, FALSE, NoRow)

restore_by_id(i) ==
    LET out == RestoreByIdOutcome(i)
    IN  /\ rows' = out.rows
        /\ lastOp' = Call("restore_by_id", FALSE, <<>>, out.ok, out.flag, <<>>)
        /\ scan' = IdleScan
        /\ UNCHANGED <<now, tx, infra>>

\* What a bulk statement leaves behind: the table, whether the call returned
\* normally, and result.rowcount.
BulkOutcome(tbl, ok, n) == [rows |-> tbl, ok |-> ok, n |-> n]

\* BaseRepository.delete_by: one DELETE statement over the rows the known
\* filter keys match; no deleted_at condition, no soft-delete branch.
DeleteByOutcome(filters) ==
    LET hit == { r \in rows : Matches(r, filters) }
    IN  BulkOutcome(rows \ hit, TRUE, Cardinality(hit))

\* A bulk call records whether its rowcount was positive as its flag.
Bulk(op, filters, out) ==
    /\ rows' = out.rows
    /\ lastOp' = Call(op, FALSE, filters, out.ok, out.n > 0, <<>>)
    /\ scan' = IdleScan
    /\ UNCHANGED <<now, tx, infra>>

\* The keyword arguments callers pass to update_by_id ("enabled" is passed
\* by enable_user / disable_user); "nickname" is a keyword that is no
\* attribute of the entity.
Updates ==
    { [email |-> m] : m \in Emails } \cup { [created_at |-> now], [nickname |-> 1] }

\* 'for key, value in updates.items(): if hasattr(entity, key): setattr(...)'
ApplyUpdates(entity, updates) ==
    [c \in Columns |-> IF c \in DOMAIN updates THEN updates[c] ELSE entity[c]]

\* BaseRepository.update_by_id
UpdateByIdOutcome(i, updates) ==
    LET entity == Get(rows, i)
    IN  IF entity # NoRow
        THEN LET upd == FlushUpdate(entity, ApplyUpdates(entity, updates))
             IN  IF NotNullOk(upd) /\ UniqueOk(rows, upd)
                 THEN Outcome((rows \ {entity}) \cup {upd}, TRUE, upd, FALSE, NoRow)
                 ELSE Raised(NoRow)
        ELSE Outcome(rows, TRUE, NoRow, FALSE, NoRow)

\* update_by_id, called under the name op.
UpdateById(op, i, updates) ==
    LET out == UpdateByIdOutcome(i, updates)
    IN  /\ rows' = out.rows
        /\ lastOp' = Call(op, FALSE, <<>>, out.ok, out.ret # NoRow, <<>>)
        /\ scan' = IdleScan
        /\ UNCHANGED <<now, tx, infra>>

update_by_id(i, updates) == UpdateById("update_by_id", i, updates)

\* The keyword filters callers pass to find_by / count / exists_by /
\* delete_by / update_by.
Filters ==
    { <<>> } \cup { [enabled |-> b] : b \in BOOLEAN } \cup { [email |-> m] : m \in Emails }
    \cup { [nickname |-> 1] }

\* BaseRepository.update_by: one UPDATE statement, SET from the updates
\* (every key must name a column, or compiling the statement raises), with
\* updated_at's onupdate default when updated_at is not among them, over the
\* rows the known filter keys match.  A constraint violation fails the
\* statement as a whole.
UpdateByOutcome(filters, updates) ==
    LET hit    == { r \in rows : Matches(r, filters) }
        set(r) == [c \in Columns |->
                      IF c \in DOMAIN updates THEN updates[c]
                      ELSE IF c = "updated_at" THEN now ELSE r[c]]
        tbl    == (rows \ hit) \cup { set(r) : r \in hit }
    IN  IF /\ DOMAIN updates \subseteq Columns
           /\ \A r \in tbl : NotNullOk(r) /\ UniqueOk(tbl, r)
           /\ Cardinality(tbl) = Cardinality(rows)
        THEN BulkOutcome(tbl, TRUE, Cardinality(hit))
        ELSE BulkOutcome(rows, FALSE, 0)

update_by(filters, updates) == Bulk("update_by", filters, UpdateByOutcome(filters, updates))

\* The call f(**F, nickname=1): the keywords F and one more that is no
\* attribute of the entity.
WithUnknown(filters) ==
    [k \in DOMAIN filters \cup {UnknownKey} |-> IF k = UnknownKey THEN 1 ELSE filters[k]]

delete_by(filters) == Bulk("delete_by", filters, DeleteByOutcome(filters))

\* BaseRepository.delete_all: the DELETE statement with no condition.
delete_all == Bulk("delete_all", <<>>, DeleteByOutcome(<<>>))

Limits  == 1..MaxLimit
Offsets == 0..MaxOffset

RowIds(list) == [j \in 1..Len(list) |-> list[j].id]

\* The run of page calls: find_all(limit=k, offset=0), then offset=k, 2k, ...
\* with no write in between, until a call returns an empty page.
ScanAfter(limit, offset, page) ==
    LET cur == IF offset = 0 THEN [IdleScan EXCEPT !.k = limit] ELSE scan
    IN  IF cur.k = limit /\ cur.off = offset /\ ~cur.done
        THEN IF page = <<>>
             THEN [cur EXCEPT !.done = TRUE]
             ELSE [cur EXCEPT !.acc = cur.acc \o RowIds(page), !.off = cur.off + limit]
        ELSE IdleScan

\* BaseRepository.find_all, called under the name op.
FindAll(op, limit, offset, include_deleted) ==
    \E page \in FindAllResults(rows, limit, offset, include_deleted) :
        /\ lastOp' = Call(op, include_deleted, [limit |-> limit, offset |-> offset], TRUE, FALSE, page)
        /\ scan' = IF include_deleted THEN IdleScan ELSE ScanAfter(limit, offset, page)
        /\ UNCHANGED <<rows, now, tx, infra>>

find_all(limit, offset, include_deleted) == FindAll("find_all", limit, offset, include_deleted)

\* BaseRepository.find_by
find_by(filters, include_deleted) ==
    \E list \in FindByResults(rows, filters, include_deleted) :
        /\ lastOp' = Call("find_by", include_deleted, filters, TRUE, FALSE, list)
        /\ UNCHANGED <<rows, now, scan, tx, infra>>

\* BaseRepository.find_by_id / count / exists_by_id are queries: functions of
\* the table they are run against.
find_by_id(tbl, i, include_deleted) == FindById(tbl, i, include_deleted)
count(tbl, filters)                 == CountOf(tbl, filters)
exists_by_id(tbl, i)                == find_by_id(tbl, i, FALSE) # NoRow

\* BaseRepository.find_one_by: 'results[0] if results else None' of
\* find_by(**filters); the values the call may return.
find_one_by(tbl, filters) ==
    { IF list = <<>> THEN NoRow ELSE list[1] : list \in FindByResults(tbl, filters, FALSE) }

\* BaseRepository.exists_by
exists_by(tbl, filters) == ExistsBy(tbl, filters)

\* BaseRepository.find_deleted / count_deleted, queries as well.
find_deleted(tbl, limit, offset) == FindDeletedResults(tbl, limit, offset)
count_deleted(tbl)               == Cardinality({ r \in tbl : r.deleted_at # NULL })

\* ------------------------------------------------------ UserRepository
find_by_email(tbl, email)   == find_one_by(tbl, [email |-> email])
exists_by_email(tbl, email) == ExistsBy(tbl, [email |-> email])
count_enabled_users(tbl)    == count(tbl, [enabled |-> TRUE])
count_disabled_users(tbl)   == count(tbl, [enabled |-> FALSE])

EnableUserOutcome(user_id)  == UpdateByIdOutcome(user_id, [enabled |-> TRUE])
DisableUserOutcome(user_id) == UpdateByIdOutcome(user_id, [enabled |-> FALSE])

enable_user(user_id)  == UpdateById("enable_user", user_id, [enabled |-> TRUE])
disable_user(user_id) == UpdateById("disable_user", user_id, [enabled |-> FALSE])

\* UserRepository.find_enabled_users / find_disabled_users: skip and limit
\* are parameters the body does not use; the call is find_by(enabled=...).
FindUsersByEnabled(op, enabled, skip, limit) ==
    \E list \in FindByResults(rows, [enabled |-> enabled], FALSE) :
        /\ lastOp' = Call(op, enabled, [skip |-> skip, limit |-> limit], TRUE, FALSE, list)
        /\ UNCHANGED <<rows, now, scan, tx, infra>>

find_enabled_users(skip, limit)  == FindUsersByEnabled("find_enabled_users", TRUE, skip, limit)
find_disabled_users(skip, limit) == FindUsersByEnabled("find_disabled_users", FALSE, skip, limit)

get_users_paginated(skip, limit) == FindAll("get_users_paginated", limit, skip, FALSE)

\* ------------------------------------------------------ UserServiceImpl
\* create_user, await by await.  'if await exists_by_email(request.email):
\* raise ConflictException'; the checks of username and national_id are
\* skipped for a request that carries neither.
CreateUserCheck(p, email, enabled) ==
    /\ calls[p].pc = "idle"
    /\ calls' = [calls EXCEPT ![p] =
                    [pc |-> IF exists_by_email(rows, email) THEN "conflict" ELSE "checked",
                     email |-> email, enabled |-> enabled]]
    /\ lastOp' = NoCall
    /\ UNCHANGED <<rows, now, scan, tx, sess, pg, dy, mem, ddb>>

\* 'user = User(email=..., enabled=...)', no id given, and
\* 'return await self._user_repository.save(user)': the user is returned, or
\* the IntegrityError of the commit propagates.
CreateUserSave(p) ==
    /\ calls[p].pc = "checked"
    /\ \E out \in SaveOutcomes([NoRow EXCEPT !.email = calls[p].email,
                                             !.enabled = calls[p].enabled]) :
          /\ rows' = out.rows
          /\ lastOp' = Call("save", FALSE, <<>>, out.ok, FALSE, <<>>)
          /\ calls' = [calls EXCEPT ![p].pc = IF out.ok THEN "returned" ELSE "raised"]
    /\ scan' = IdleScan
    /\ UNCHANGED <<now, tx, sess, pg, dy, mem, ddb>>

\* The task has its answer and takes the next request.
CreateUserEnd(p) ==
    /\ calls[p].pc \in {"returned", "raised", "conflict"}
    /\ calls' = [calls EXCEPT ![p] = NoRequest]
    /\ lastOp' = NoCall
    /\ UNCHANGED <<rows, now, scan, tx, sess, pg, dy, mem, ddb>>

\* ------------------------------------------------------------ transaction
\* BaseRepository.transaction: _get_session() opens a session of its own and
\* session.begin() starts a transaction on it; the scope yields that session.
TxBegin ==
    /\ tx.state = "none"
    /\ tx' = [state |-> "open", saved |-> {}, pending |-> {}]
    /\ lastOp' = NoCall
    /\ UNCHANGED <<rows, now, scan, infra>>

\* repository.save(entity) called inside the scope, as test_transaction does.
\* save() takes no session argument: it opens its own session through
\* _get_session() and commits it before it returns.
TxSave(e) ==
    /\ tx.state = "open"
    /\ \E out \in SaveOutcomes(e) :
        /\ rows' = out.rows
        /\ lastOp' = Call("save", FALSE, <<>>, out.ok, FALSE, <<>>)
        /\ tx' = [tx EXCEPT !.saved = IF out.ok THEN @ \cup {out.ret} ELSE @]
    /\ scan' = IdleScan
    /\ UNCHANGED <<now, infra>>

\* session.add(entity) on the yielded session: pending in the scope's own
\* transaction until the scope exits.
TxSessionAdd(e) ==
    /\ tx.state = "open"
    /\ tx.pending = {}
    /\ e.id # NULL /\ Get(rows, e.id) = NoRow
    /\ tx' = [tx EXCEPT !.pending = {e}]
    /\ lastOp' = NoCall
    /\ UNCHANGED <<rows, now, scan, infra>>

\* The body raises: session.begin() rolls the scope's transaction back,
\* _get_session rolls back and closes the session, the error propagates.
TxRaise ==
    /\ tx.state = "open"
    /\ tx' = [tx EXCEPT !.state = "rolled_back", !.pending = {}]
    /\ lastOp' = NoCall
    /\ UNCHANGED <<rows, now, scan, infra>>

\* The body ends normally: session.begin() commits the scope's transaction;
\* a constraint violation at that commit rolls it back instead.
TxExit ==
    /\ tx.state = "open"
    /\ LET ins == { FlushInsert(e, e.id) : e \in tx.pending }
       IN  IF \A r \in ins : NotNullOk(r) /\ UniqueOk(rows, r) /\ Get(rows, r.id) = NoRow
           THEN /\ rows' = rows \cup ins
                /\ tx' = [tx EXCEPT !.state = "committed", !.pending = {}]
           ELSE /\ rows' = rows
                /\ tx' = [tx EXCEPT !.state = "rolled_back", !.pending = {}]
    /\ scan' = IdleScan
    /\ lastOp' = NoCall
    /\ UNCHANGED <<now, infra>>

\* The caller is done with the outcome of the scope.
TxForget ==
    /\ tx.state \in {"committed", "rolled_back"}
    /\ tx' = NoTx
    /\ lastOp' = NoCall
    /\ UNCHANGED <<rows, now, scan, infra>>

\* --------------------------------------------------------- session scope
\* One repository call, step by step, as _get_session (and the try / except /
\* finally of BaseModel.save) runs it: sess.pc is the await the calling task
\* is suspended at, sess.open the number of sessions that are open,
\* sess.before that number when the call began, sess.exit how the call ends.
\* 'session = self.connection.get_session()', then the body is entered.
SessionOpen ==
    /\ sess.pc = "idle"
    /\ sess.open < MaxOpen
    /\ sess' = [pc |-> "body", open |-> sess.open + 1, before |-> sess.open, exit |-> "none"]
    /\ lastOp' = NoCall
    /\ UNCHANGED <<rows, now, scan, tx, pg, dy, mem, ddb, calls>>

\* The body of save(e) up to 'await session.commit()': the commit succeeds
\* and the body returns, or it fails and the exception enters
\* 'except Exception'.
SessionCommit(e) ==
    /\ sess.pc = "body"
    /\ \E out \in SaveOutcomes(e) :
        /\ rows' = out.rows
        /\ lastOp' = Call("save", FALSE, <<>>, out.ok, FALSE, <<>>)
        /\ sess' = IF out.ok THEN [sess EXCEPT !.pc = "close", !.exit = "return"]
                             ELSE [sess EXCEPT !.pc = "rollback", !.exit = "raise"]
    /\ scan' = IdleScan
    /\ UNCHANGED <<now, tx, pg, dy, mem, ddb, calls>>

\* 'await session.rollback()' returns; 'raise' leaves through 'finally'.
SessionRollback ==
    /\ sess.pc = "rollback"
    /\ sess' = [sess EXCEPT !.pc = "close"]
    /\ lastOp' = NoCall
    /\ UNCHANGED <<rows, now, scan, tx, pg, dy, mem, ddb, calls>>

\* 'await session.rollback()' raises itself: its exception leaves through
\* 'finally' as well.
SessionRollbackFails ==
    /\ sess.pc = "rollback"
    /\ sess' = [sess EXCEPT !.pc = "close", !.exit = "rollback_error"]
    /\ lastOp' = NoCall
    /\ UNCHANGED <<rows, now, scan, tx, pg, dy, mem, ddb, calls>>

\* 'finally: await session.close()' runs to its end.
SessionClose ==
    /\ sess.pc = "close"
    /\ sess' = [sess EXCEPT !.pc = "ended", !.open = @ - 1]
    /\ lastOp' = NoCall
    /\ UNCHANGED <<rows, now, scan, tx, pg, dy, mem, ddb, calls>>

\* The calling task is cancelled: CancelledError is raised at the await it
\* is suspended at.  It is no Exception, so from the body or from the
\* rollback it goes straight to 'finally'.  At 'await session.close()' it
\* interrupts the close, which nothing shields or repeats: the session is
\* closed or still open, as far as the close had got.
SessionCancel ==
    /\ sess.pc \in {"body", "rollback", "close"}
    /\ IF sess.pc = "close"
       THEN \E n \in {sess.open, sess.open - 1} :
                sess' = [sess EXCEPT !.pc = "ended", !.open = n, !.exit = "cancelled"]
       ELSE sess' = [sess EXCEPT !.pc = "close", !.exit = "cancelled"]
    /\ lastOp' = NoCall
    /\ UNCHANGED <<rows, now, scan, tx, pg, dy, mem, ddb, calls>>

\* The caller has the outcome and makes its next call.
SessionEnd ==
    /\ sess.pc = "ended"
    /\ sess' = [sess EXCEPT !.pc = "idle", !.exit = "none"]
    /\ lastOp' = NoCall
    /\ UNCHANGED <<rows, now, scan, tx, pg, dy, mem, ddb, calls>>

\* ------------------------------------------------------------ connections
\* A connection call leaves the table and the callers' scopes alone.
ConnCall(op, failed, ok, flag) ==
    /\ lastOp' = Call(op, failed, <<>>, ok, flag, <<>>)
    /\ UNCHANGED <<rows, now, scan, tx, sess, mem, ddb, calls>>

\* PostgreSQLConnection.is_connected
PgIsConnected(c) == c.connected /\ c.engine

\* PostgreSQLConnection.get_session returns a session; it raises
\* RuntimeError when _session_factory is not set.
PgGetSessionOk(c) == c.session_factory

\* PostgreSQLConnection.connect.  fail names what raises inside the try:
\* create_async_engine ("engine"), async_sessionmaker ("factory"), nothing.
PgConnect(fail) ==
    /\ IF pg.engine
       THEN /\ pg' = pg
            /\ ConnCall("pg_connect", FALSE, TRUE, PgIsConnected(pg))
       ELSE IF fail = "engine"
       THEN /\ pg' = [pg EXCEPT !.connected = FALSE]
            /\ ConnCall("pg_connect", TRUE, FALSE, FALSE)
       ELSE IF fail = "factory"
       THEN /\ pg' = [pg EXCEPT !.engine = TRUE, !.connected = FALSE]
            /\ ConnCall("pg_connect", TRUE, FALSE, FALSE)
       ELSE /\ pg' = [engine |-> TRUE, session_factory |-> TRUE, connected |-> TRUE]
            /\ ConnCall("pg_connect", FALSE, TRUE, TRUE)
    /\ UNCHANGED dy

\* PostgreSQLConnection.disconnect
PgDisconnect ==
    /\ pg' = NoPg
    /\ ConnCall("pg_disconnect", FALSE, TRUE, FALSE)
    /\ UNCHANGED dy

\* DynamoDBConnection.health_check
DyHealthCheck(c) == c.connected

\* DynamoDBConnection.connect: no test of _connected before a new
\* Connection is built; an exception of the constructor is printed and
\* not re-raised.
DyConnect(fail) ==
    /\ dy.connection < MaxConnects
    /\ IF fail
       THEN /\ dy' = [dy EXCEPT !.connected = FALSE]
            /\ ConnCall("dy_connect", TRUE, TRUE, FALSE)
       ELSE /\ dy' = [connection |-> dy.connection + 1, connected |-> TRUE]
            /\ ConnCall("dy_connect", FALSE, TRUE, TRUE)
    /\ UNCHANGED pg

\* DynamoDBConnection.disconnect
DyDisconnect ==
    /\ dy' = NoDy
    /\ ConnCall("dy_disconnect", FALSE, TRUE, FALSE)
    /\ UNCHANGED pg

\* A caller asks PostgreSQLConnection.is_connected().
pg_is_connected ==
    /\ ConnCall("pg_is_connected", FALSE, TRUE, PgIsConnected(pg))
    /\ UNCHANGED <<pg, dy>>

\* A caller asks DynamoDBConnection.health_check().
dy_health_check ==
    /\ ConnCall("dy_health_check", FALSE, TRUE, DyHealthCheck(dy))
    /\ UNCHANGED <<pg, dy>>

\* ------------------------------------------------------ MemoryConnection
\* The table callers use, and the dicts they pass: records with an 'id' and
\* a 'name', and update data that sets 'name', 'id' or both.
MemTable   == "users"
MemNames   == {1, 2}
MemRecords == [id : Ids, name : MemNames]
MemData    == [name : MemNames] \cup [id : Ids] \cup MemRecords

\* self._tables[table_name] after 'if table_name not in self._tables:
\* self._tables[table_name] = []'.
MemList(t) == IF t \in DOMAIN mem.tables THEN mem.tables[t] ELSE <<>>

\* self._tables with the list of table t replaced.
MemPut(t, list) ==
    [mem EXCEPT !.tables = [u \in DOMAIN mem.tables \cup {t} |->
                               IF u = t THEN list ELSE mem.tables[u]]]

\* A MemoryConnection call leaves everything else alone.
MemCall(op, flag) ==
    /\ lastOp' = Call(op, FALSE, <<>>, TRUE, flag, <<>>)
    /\ UNCHANGED <<rows, now, scan, tx, sess, pg, dy, ddb, calls>>

\* MemoryConnection.insert: append, whatever ids the list holds.
MemInsert(data) ==
    /\ Len(MemList(MemTable)) < MaxMem
    /\ mem' = MemPut(MemTable, Append(MemList(MemTable), data))
    /\ MemCall("mem_insert", TRUE)

\* MemoryConnection.insert_many: extend.
MemInsertMany(data) ==
    /\ Len(MemList(MemTable)) + Len(data) <= MaxMem
    /\ mem' = MemPut(MemTable, MemList(MemTable) \o data)
    /\ MemCall("mem_insert_many", TRUE)

\* The index of the first record of the list whose id is record_id, 0 if
\* there is none.
MemIndex(list, record_id) ==
    IF \E j \in 1..Len(list) : list[j].id = record_id
    THEN CHOOSE j \in 1..Len(list) :
            /\ list[j].id = record_id
            /\ \A k \in 1..(j - 1) : list[k].id # record_id
    ELSE 0

\* MemoryConnection.update: dict.update(data) on the first record with the id.
MemUpdate(record_id, data) ==
    IF MemTable \notin DOMAIN mem.tables \/ MemIndex(MemList(MemTable), record_id) = 0
    THEN /\ mem' = mem
         /\ MemCall("mem_update", FALSE)
    ELSE LET list == MemList(MemTable)
             j    == MemIndex(list, record_id)
             new  == [k \in {"id", "name"} |-> IF k \in DOMAIN data THEN data[k] ELSE list[j][k]]
         IN  /\ mem' = MemPut(MemTable, [list EXCEPT ![j] = new])
             /\ MemCall("mem_update", TRUE)

\* MemoryConnection.delete: del of the first record with the id.
MemDelete(record_id) ==
    IF MemTable \notin DOMAIN mem.tables \/ MemIndex(MemList(MemTable), record_id) = 0
    THEN /\ mem' = mem
         /\ MemCall("mem_delete", FALSE)
    ELSE LET list == MemList(MemTable)
             j    == MemIndex(list, record_id)
         IN  /\ mem' = MemPut(MemTable, SubSeq(list, 1, j - 1) \o SubSeq(list, j + 1, Len(list)))
             /\ MemCall("mem_delete", TRUE)

\* MemoryConnection.connect
MemConnect ==
    /\ mem' = [mem EXCEPT !.connected = TRUE]
    /\ MemCall("mem_connect", TRUE)

\* MemoryConnection.disconnect: _connected = False and self._tables.clear()
MemDisconnect ==
    /\ mem' = [connected |-> FALSE, tables |-> <<>>]
    /\ MemCall("mem_disconnect", FALSE)

\* The None that find_by_id / find_one return when nothing matches.
NoRecord == [id |-> NULL, name |-> NULL]

\* MemoryConnection.find_by_id on the connection object c: the first record
\* of the table with the id.
MemFindById(c, record_id) ==
    IF MemTable \notin DOMAIN c.tables \/ MemIndex(c.tables[MemTable], record_id) = 0
    THEN NoRecord
    ELSE c.tables[MemTable][MemIndex(c.tables[MemTable], record_id)]

\* ------------------------------------------------------------- find_many
\* The filter_dict, skip and limit callers pass to find_many.
MemFilters == { <<>> } \cup [name : MemNames] \cup [id : Ids]
MemSkips   == 0..MaxOffset
MemLimits  == 0..MaxLimit

\* record.get(key) / getattr(item, key, None)
MemGet(record, key) == IF key \in DOMAIN record THEN record[key] ELSE NULL

\* all(record.get(key) == value for key, value in filter_dict.items())
MemMatches(record, filter_dict) ==
    \A key \in DOMAIN filter_dict : MemGet(record, key) = filter_dict[key]

\* The 'matching_records' list of MemoryConnection.find_many.
RECURSIVE MemMatching(_, _)
MemMatching(list, filter_dict) ==
    IF list = <<>> THEN <<>>
    ELSE (IF MemMatches(Head(list), filter_dict) THEN <<Head(list)>> ELSE <<>>)
         \o MemMatching(Tail(list), filter_dict)

\* The Python slice list[skip:skip + limit] for skip, limit >= 0.
PySlice(list, skip, limit) ==
    SubSeq(list, skip + 1, IF skip + limit < Len(list) THEN skip + limit ELSE Len(list))

\* MemoryConnection.find_many
MemFindMany(filter_dict, skip, limit) ==
    IF MemTable \notin DOMAIN mem.tables THEN <<>>
    ELSE PySlice(MemMatching(mem.tables[MemTable], filter_dict), skip, limit)

\* The loop of DynamoDBConnection.find_many over the items model_class.scan()
\* yields, from item j on, with the 'items' and 'count' it has so far: a
\* matching item is appended once count >= skip, the length test that
\* breaks the loop comes after the append, and count is incremented after it.
RECURSIVE DyScanLoop(_, _, _, _, _, _, _)
DyScanLoop(scanned, j, filter_dict, skip, limit, items, cnt) ==
    IF j > Len(scanned) THEN items
    ELSE IF ~MemMatches(scanned[j], filter_dict)
    THEN DyScanLoop(scanned, j + 1, filter_dict, skip, limit, items, cnt)
    ELSE IF cnt >= skip
    THEN LET items2 == Append(items, scanned[j])
         IN  IF Len(items2) >= limit THEN items2
             ELSE DyScanLoop(scanned, j + 1, filter_dict, skip, limit, items2, cnt + 1)
    ELSE DyScanLoop(scanned, j + 1, filter_dict, skip, limit, items, cnt + 1)

\* DynamoDBConnection.find_many over a table whose scan yields 'scanned'.
DyFindMany(scanned, filter_dict, skip, limit) ==
    DyScanLoop(scanned, 1, filter_dict, skip, limit, <<>>, 0)

\* A caller runs MemoryConnection.find_many.
mem_find_many(filter_dict, skip, limit) ==
    /\ lastOp' = Call("mem_find_many", FALSE, [skip |-> skip, limit |-> limit], TRUE, FALSE,
                      MemFindMany(filter_dict, skip, limit))
    /\ UNCHANGED <<rows, now, scan, tx, infra>>

\* A caller runs DynamoDBConnection.find_many on a DynamoDB table that holds
\* the records of the MemoryConnection table, scanned in the same order.
dy_find_many(filter_dict, skip, limit) ==
    /\ lastOp' = Call("dy_find_many", FALSE, [skip |-> skip, limit |-> limit], TRUE, FALSE,
                      DyFindMany(MemList(MemTable), filter_dict, skip, limit))
    /\ UNCHANGED <<rows, now, scan, tx, infra>>

\* --------------------------------------------------- DynamoDBConnection
\* The DynamoDB table is a set of items with distinct hash keys 'id';
\* 'name' stands for a non-key attribute of the item.  Every call reaches
\* the store through PynamoDB (get, scan, save, delete, count), and
\* 'failed' says that this request raised an error of the store (a
\* GetError, ScanError, PutError, ... for a lost connection, a missing
\* table, throttling), which is an Exception and not DoesNotExist.
DyCall(op, failed, ok, flag, list) ==
    /\ lastOp' = Call(op, failed, <<>>, ok, flag, list)
    /\ UNCHANGED <<rows, now, scan, tx, sess, pg, dy, mem, calls>>

\* model_class.get(str(record_id)): the item, NoRecord for DoesNotExist.
DyGet(record_id) ==
    IF \E r \in ddb : r.id = record_id THEN CHOOSE r \in ddb : r.id = record_id ELSE NoRecord

\* The orders in which model_class.scan() may yield the items.
DyScans == Perms(ddb)

\* DynamoDBConnection.insert: item.save() puts the item under its hash key;
\* 'except PutError / except Exception: print(...); raise'.
DyInsert(data, failed) ==
    /\ ddb' = IF failed THEN ddb ELSE { r \in ddb : r.id # data.id } \cup {data}
    /\ DyCall("dy_insert", failed, ~failed, ~failed, <<>>)

\* DynamoDBConnection.find_by_id: 'except DoesNotExist: return None' and
\* 'except Exception: print(...); return None'.
DyFindById(record_id, failed) ==
    LET item == IF failed THEN NoRecord ELSE DyGet(record_id)
    IN  /\ DyCall("dy_find_by_id", failed, TRUE, item # NoRecord,
                  IF item # NoRecord THEN <<item>> ELSE <<>>)
        /\ UNCHANGED ddb

\* DynamoDBConnection.find_one: the first matching item of the scan;
\* 'except Exception: print(...); return None'.
DyFindOne(filter_dict, failed) ==
    \E scanned \in DyScans :
        LET found == IF failed THEN <<>> ELSE DyFindMany(scanned, filter_dict, 0, 1)
        IN  /\ DyCall("dy_find_one", failed, TRUE, found # <<>>, found)
            /\ UNCHANGED ddb

\* DynamoDBConnection.find_many; 'except Exception: print(...); return []'.
DyFindManyStored(filter_dict, skip, limit, failed) ==
    \E scanned \in DyScans :
        LET found == IF failed THEN <<>> ELSE DyFindMany(scanned, filter_dict, skip, limit)
        IN  /\ DyCall("dy_find_many", failed, TRUE, found # <<>>, found)
            /\ UNCHANGED ddb

\* DynamoDBConnection.update: get, setattr for every key, save;
\* 'except DoesNotExist: return False' and 'except Exception: return False'.
DyUpdate(record_id, data, failed) ==
    LET item == DyGet(record_id)
        new  == [k \in {"id", "name"} |-> IF k \in DOMAIN data THEN data[k] ELSE item[k]]
    IN  IF failed \/ item = NoRecord
        THEN /\ DyCall("dy_update", failed, TRUE, FALSE, <<>>)
             /\ UNCHANGED ddb
        ELSE /\ ddb' = { r \in ddb : r.id # new.id } \cup {new}
             /\ DyCall("dy_update", FALSE, TRUE, TRUE, <<>>)

\* DynamoDBConnection.delete: get, item.delete(); 'except DoesNotExist',
\* 'except DeleteError' and 'except Exception' all return False.
DyDelete(record_id, failed) ==
    LET item == DyGet(record_id)
    IN  IF failed \/ item = NoRecord
        THEN /\ DyCall("dy_delete", failed, TRUE, FALSE, <<>>)
             /\ UNCHANGED ddb
        ELSE /\ ddb' = ddb \ {item}
             /\ DyCall("dy_delete", FALSE, TRUE, TRUE, <<>>)

\* DynamoDBConnection.count: model_class.count() without a filter, a scan
\* with one; 'except Exception: print(...); return 0'.
DyCountOf(filter_dict) == Cardinality({ r \in ddb : MemMatches(r, filter_dict) })

\* The call records whether the count returned was positive as its flag.
DyCount(filter_dict, failed) ==
    /\ DyCall("dy_count", failed, TRUE, ~failed /\ DyCountOf(filter_dict) > 0, <<>>)
    /\ UNCHANGED ddb

\* DynamoDBConnection.exists; 'except Exception: print(...); return False'.
DyExists(filter_dict, failed) ==
    /\ DyCall("dy_exists", failed, TRUE, ~failed /\ \E r \in ddb : MemMatches(r, filter_dict), <<>>)
    /\ UNCHANGED ddb

\* The calls of DynamoDBConnection that read or change stored items and
\* answer with None / False / 0 / [] when nothing matches.
DyLookups ==
    {"dy_find_by_id", "dy_find_one", "dy_find_many", "dy_update", "dy_delete",
     "dy_count", "dy_exists"}

\* ---------------------------------------------------------- specifications
\* Every write of the repository, in any order.
Next ==
    \/ Tick
    \/ \E e \in Entities : save(e)
    \/ \E i \in Ids, b \in BOOLEAN : delete_by_id(i, b)
    \/ \E i \in Ids : restore_by_id(i)
    \/ \E i \in Ids, u \in Updates : update_by_id(i, u)
    \/ \E i \in Ids : enable_user(i)
    \/ \E i \in Ids : disable_user(i)

Spec == Init /\ [][Next]_vars

\* A caller that saves new and loaded-and-changed entities over a table
\* records are soft-deleted from.
NextSave ==
    \/ Tick
    \/ \E e \in Entities : save(e)
    \/ \E i \in Ids : delete_by_id(i, FALSE)

SpecSave == Init /\ [][NextSave]_vars

\* A caller that stores new records, deletes them softly or for good, and
\* restores them.
NextDelete ==
    \/ Tick
    \/ \E e \in Transient : save(e)
    \/ \E i \in Ids, b \in BOOLEAN : delete_by_id(i, b)
    \/ \E i \in Ids : restore_by_id(i)

SpecDelete == Init /\ [][NextDelete]_vars

\* A caller that stores new users, soft-deletes them, and enables and
\* disables them.
NextEnable ==
    \/ Tick
    \/ \E e \in Transient : save(e)
    \/ \E i \in Ids : delete_by_id(i, FALSE)
    \/ \E i \in Ids : enable_user(i)
    \/ \E i \in Ids : disable_user(i)

SpecEnable == Init /\ [][NextEnable]_vars

\* A caller that stores new records, soft-deletes them one by one, and
\* deletes them in bulk.
NextBulk ==
    \/ Tick
    \/ \E e \in Transient : save(e)
    \/ \E i \in Ids : delete_by_id(i, FALSE)
    \/ \E f \in Filters : delete_by(f)
    \/ delete_all

SpecBulk == Init /\ [][NextBulk]_vars

\* A caller that stores new records, soft-deletes them, and runs find_by
\* with and without a keyword that is no attribute.
NextFind ==
    \/ Tick
    \/ \E e \in Transient : save(e)
    \/ \E i \in Ids : delete_by_id(i, FALSE)
    \/ \E f \in Filters, b \in BOOLEAN : find_by(f, b)
    \/ \E f \in Filters, b \in BOOLEAN : find_by(WithUnknown(f), b)

SpecFind == Init /\ [][NextFind]_vars

\* A caller that saves, updates one record or many, soft-deletes and
\* restores; no record is ever removed, so an id names one record for good.
NextUpdate ==
    \/ Tick
    \/ \E e \in Entities : save(e)
    \/ \E i \in Ids, u \in Updates : update_by_id(i, u)
    \/ \E f \in Filters, u \in Updates : update_by(f, u)
    \/ \E i \in Ids : delete_by_id(i, FALSE)
    \/ \E i \in Ids : restore_by_id(i)

SpecUpdate == Init /\ [][NextUpdate]_vars

\* A caller whose save calls are taken step by step and may be cancelled.
NextSession ==
    \/ Tick
    \/ SessionOpen
    \/ \E e \in Transient : SessionCommit(e)
    \/ SessionRollback
    \/ SessionRollbackFails
    \/ SessionClose
    \/ SessionCancel
    \/ SessionEnd

SpecSession == Init /\ [][NextSession]_vars

\* Callers that connect, disconnect and probe the two connections, with
\* connects that fail.
NextConn ==
    \/ Tick
    \/ \E fail \in {"none", "engine", "factory"} : PgConnect(fail)
    \/ PgDisconnect
    \/ \E fail \in BOOLEAN : DyConnect(fail)
    \/ DyDisconnect
    \/ pg_is_connected
    \/ dy_health_check

SpecConn == Init /\ [][NextConn]_vars

\* Callers of one MemoryConnection table.
NextMem ==
    \/ \E data \in MemRecords : MemInsert(data)
    \/ \E n \in 1..MaxBatch : \E data \in [1..n -> MemRecords] : MemInsertMany(data)
    \/ \E i \in Ids, data \in MemData : MemUpdate(i, data)
    \/ \E i \in Ids : MemDelete(i)

SpecMem == Init /\ [][NextMem]_vars

\* A caller that fills one MemoryConnection table and connects and
\* disconnects the connection object.
NextMemLife ==
    \/ \E data \in MemRecords : MemInsert(data)
    \/ \E i \in Ids : MemDelete(i)
    \/ MemConnect
    \/ MemDisconnect

SpecMemLife == Init /\ [][NextMemLife]_vars

\* Callers that fill one table and page through it with find_many, on the
\* in-memory backend and on DynamoDB.
NextPages ==
    \/ \E data \in MemRecords : MemInsert(data)
    \/ \E i \in Ids : MemDelete(i)
    \/ \E f \in MemFilters, s \in MemSkips, l \in MemLimits : mem_find_many(f, s, l)
    \/ \E f \in MemFilters, s \in MemSkips, l \in MemLimits : dy_find_many(f, s, l)

SpecPages == Init /\ [][NextPages]_vars

\* Callers of one DynamoDB table whose requests the store may fail.
NextDynamo ==
    \/ \E data \in MemRecords, failed \in BOOLEAN : DyInsert(data, failed)
    \/ \E i \in Ids, failed \in BOOLEAN : DyFindById(i, failed)
    \/ \E f \in MemFilters, failed \in BOOLEAN : DyFindOne(f, failed)
    \/ \E f \in MemFilters, s \in MemSkips, l \in MemLimits, failed \in BOOLEAN :
          DyFindManyStored(f, s, l, failed)
    \/ \E i \in Ids, data \in [name : MemNames], failed \in BOOLEAN : DyUpdate(i, data, failed)
    \/ \E i \in Ids, failed \in BOOLEAN : DyDelete(i, failed)
    \/ \E f \in MemFilters, failed \in BOOLEAN : DyCount(f, failed)
    \/ \E f \in MemFilters, failed \in BOOLEAN : DyExists(f, failed)

SpecDynamo == Init /\ [][NextDynamo]_vars

\* A caller that stores users, soft-deletes them, and lists the enabled and
\* the disabled ones page by page.
NextUsers ==
    \/ Tick
    \/ \E e \in Transient : save(e)
    \/ \E i \in Ids : delete_by_id(i, FALSE)
    \/ \E s \in Offsets, l \in Limits : find_enabled_users(s, l)
    \/ \E s \in Offsets, l \in Limits : find_disabled_users(s, l)

SpecUsers == Init /\ [][NextUsers]_vars

\* A caller that stores users one by one and in batches of new users, and
\* soft-deletes them, all within one tick of the clock.
NextBatch ==
    \/ \E e \in Transient : save(e)
    \/ \E batch \in UserBatches : save_all(batch)
    \/ \E i \in Ids : delete_by_id(i, FALSE)

SpecBatch == Init /\ [][NextBatch]_vars

\* Two tasks that create users, their awaits interleaved, over a table
\* users are soft-deleted from, all within one tick of the clock.
NextCreate ==
    \/ \E p \in Callers, m \in Emails, b \in BOOLEAN : CreateUserCheck(p, m, b)
    \/ \E p \in Callers : CreateUserSave(p)
    \/ \E p \in Callers : CreateUserEnd(p)
    \/ \E i \in Ids : delete_by_id(i, FALSE)

SpecCreate == Init /\ [][NextCreate]_vars

\* A caller that stores records, soft-deletes them, deletes them in bulk by
\* any filter, and updates them in bulk with no filter or with a filter of
\* one key that is no attribute.
NextUnfiltered ==
    \/ Tick
    \/ \E e \in Transient : save(e)
    \/ \E i \in Ids : delete_by_id(i, FALSE)
    \/ \E f \in Filters : delete_by(f)
    \/ \E f \in {<<>>, WithUnknown(<<>>)}, u \in Updates : update_by(f, u)

SpecUnfiltered == Init /\ [][NextUnfiltered]_vars

\* The queries whose result the statement leaves open, over a table that is
\* filled and soft-deleted from.
NextQuery ==
    \/ Tick
    \/ \E e \in Transient : save(e)
    \/ \E batch \in Batches : save_all(batch)
    \/ \E i \in Ids : delete_by_id(i, FALSE)
    \/ \E l \in Limits, o \in Offsets, b \in BOOLEAN : find_all(l, o, b)
    \/ \E f \in Filters, b \in BOOLEAN : find_by(f, b)
    \/ \E l \in Limits, o \in Offsets : get_users_paginated(o, l)

SpecQuery == Init /\ [][NextQuery]_vars

\* A caller running test_transaction's scope against the table.
NextTx ==
    \/ Tick
    \/ TxBegin
    \/ \E e \in Transient : TxSave(e)
    \/ \E e \in Transient : TxSessionAdd(e)
    \/ TxRaise
    \/ TxExit
    \/ TxForget

SpecTx == Init /\ [][NextTx]_vars

\* ------------------------------------------------------------------ claims
\* C1 (as stated): after save(e) returns, find_by_id(e.id) returns an entity
\* whose every column except updated_at equals the column of e.
C1_SaveThenFindEqual ==
    \A e \in Entities : \A out \in SaveOutcomes(e) :
        out.ok =>
            LET found == find_by_id(out.rows, out.e.id, FALSE)
            IN  /\ found # NoRow
                /\ \A c \in Columns \ {"updated_at"} : found[c] = out.e[c]

\* C1 (amended): for an entity e whose deleted_at is None, after save(e)
\* returns, find_by_id(e.id) returns the entity save returned, and each of
\* its columns equals the column of e, except updated_at and, when save
\* updated a stored record, created_at, which keeps its stored value.
C1_SaveThenFindActive ==
    \A e \in Entities : \A out \in SaveOutcomes(e) :
        (out.ok /\ e.deleted_at = NULL) =>
            LET found    == find_by_id(out.rows, out.e.id, FALSE)
                existing == IF e.id # NULL THEN Get(rows, e.id) ELSE NoRow
            IN  /\ found # NoRow
                /\ found = out.ret
                /\ \A c \in Columns \ {"updated_at", "created_at"} : found[c] = out.e[c]
                /\ found.created_at = IF existing # NoRow THEN existing.created_at
                                                         ELSE out.e.created_at

\* C1 witness: a save has returned, and a record it left stored was updated
\* now, later than it was created, and find_by_id finds it.
C1_Witness ==
    /\ lastOp.op = "save" /\ lastOp.ok
    /\ \E r \in rows :
          /\ r.updated_at = now /\ r.updated_at > r.created_at
          /\ find_by_id(rows, r.id, FALSE) = r

\* C2: a soft delete_by_id(id) of a stored record returns True, and then
\* find_by_id(id) returns None and find_by_id(id, include_deleted=True)
\* returns the record with a non-null deleted_at.
C2_SoftDeleteHidesRecord ==
    \A i \in Ids :
        Get(rows, i) # NoRow =>
            LET out == DeleteByIdOutcome(i, FALSE)
            IN  /\ out.ok /\ out.flag
                /\ find_by_id(out.rows, i, FALSE) = NoRow
                /\ find_by_id(out.rows, i, TRUE) # NoRow
                /\ find_by_id(out.rows, i, TRUE).id = i
                /\ find_by_id(out.rows, i, TRUE).deleted_at # NULL

\* C2 witness: a soft delete has just stamped a record, which find_by_id no
\* longer returns.
C2_Witness ==
    /\ lastOp.op = "delete_by_id" /\ ~lastOp.opt /\ lastOp.flag
    /\ \E r \in rows :
          r.deleted_at = now /\ find_by_id(rows, r.id, FALSE) = NoRow

\* C3: restore_by_id(id) on a soft-deleted record returns True, and then
\* find_by_id(id) returns the record with deleted_at = None and no result of
\* find_deleted() contains it.
C3_RestoreAfterSoftDelete ==
    \A i \in Ids :
        (Get(rows, i) # NoRow /\ is_deleted(Get(rows, i))) =>
            LET out == RestoreByIdOutcome(i)
            IN  /\ out.ok /\ out.flag
                /\ find_by_id(out.rows, i, FALSE) # NoRow
                /\ find_by_id(out.rows, i, FALSE).deleted_at = NULL
                /\ \A list \in FindDeletedResults(out.rows, DefaultLimit, 0) :
                      \A j \in 1..Len(list) : list[j].id # i

\* C3 witness: a restore has returned True and left a record active whose
\* updated_at it has just advanced.
C3_Witness ==
    /\ lastOp.op = "restore_by_id" /\ lastOp.flag
    /\ \E r \in rows :
          /\ r.deleted_at = NULL /\ r.updated_at = now /\ r.updated_at > r.created_at
          /\ find_by_id(rows, r.id, FALSE) = r

\* C4: delete_by_id(id, hard_delete=True) on a stored record, active or
\* soft-deleted, returns True and then find_by_id(id) and
\* find_by_id(id, include_deleted=True) return None; and restore_by_id,
\* update_by_id and delete_by_id on an id that has no record return
\* False / None and leave it without a record.
C4_HardDeletePermanent ==
    \A i \in Ids :
        IF Get(rows, i) # NoRow
        THEN LET out == DeleteByIdOutcome(i, TRUE)
             IN  /\ out.ok /\ out.flag
                 /\ find_by_id(out.rows, i, FALSE) = NoRow
                 /\ find_by_id(out.rows, i, TRUE) = NoRow
        ELSE \A out \in {RestoreByIdOutcome(i)}
                        \cup { DeleteByIdOutcome(i, h) : h \in BOOLEAN }
                        \cup { UpdateByIdOutcome(i, u) : u \in Updates } :
                /\ ~out.flag /\ out.ret = NoRow
                /\ Get(out.rows, i) = NoRow

\* C4 witness: a hard delete has removed one of two records.
C4_Witness ==
    /\ lastOp.op = "delete_by_id" /\ lastOp.opt /\ lastOp.flag
    /\ Cardinality(rows) = 1

\* How often id i occurs in the sequence of ids acc.
Occurrences(acc, i) == Cardinality({ j \in 1..Len(acc) : acc[j] = i })

\* C5: a run of find_all(limit=k, offset=0, k, 2k, ...) calls with no write
\* in between, ended by an empty page, has returned every record with
\* deleted_at = None exactly once and no soft-deleted record.
C5_PagesCoverEachOnce ==
    scan.done =>
        \A r \in rows : Occurrences(scan.acc, r.id) = IF NotDeleted(r) THEN 1 ELSE 0

\* C6: once a transaction() scope has been left by an error, no entity that
\* repository.save stored inside the scope is in the table.
C6_RollbackRemovesSaved ==
    tx.state = "rolled_back" =>
        \A u \in tx.saved :
            /\ find_by_id(rows, u.id, FALSE) = NoRow
            /\ ~exists_by_email(rows, u.email)

\* C7: exists_by_email(x) is True for the e-mail x of every saved user, and
\* save of an entity whose e-mail is stored under a different id raises and
\* leaves the table unchanged.
C7_UniqueEmail ==
    /\ \A r \in rows : exists_by_email(rows, r.email)
    /\ \A e \in Entities :
          (\E r \in rows : r.email = e.email /\ r.id # e.id) =>
              \A out \in SaveOutcomes(e) : ~out.ok /\ out.rows = rows

\* C7 witness: a save has raised while two users are stored: every e-mail
\* is taken.
C7_Witness ==
    /\ lastOp.op = "save" /\ ~lastOp.ok
    /\ Cardinality(rows) = 2

C9_SaveIsUpsert ==
    \A e \in Entities : \A out \in SaveOutcomes(e) :
        LET existing == IF e.id # NULL THEN Get(rows, e.id) ELSE NoRow
        IN  IF existing # NoRow
            THEN /\ Cardinality(out.rows) = Cardinality(rows)
                 /\ Get(out.rows, e.id).created_at = existing.created_at
                 /\ \A c \in Columns \ {"id", "created_at"} : Get(out.rows, e.id)[c] = e[c]
            ELSE Cardinality(out.rows) = Cardinality(rows) + 1

\* C9 (amended): a save(e) that raises leaves the table unchanged.  A
\* save(e) that returns, for an id that is stored, keeps the number of
\* records and every other record, keeps the record's id and created_at, and
\* gives every other column except updated_at the value held by e; for an
\* unset id or an id that is not stored it adds exactly one record.
C9_SaveIsUpsertWhenOk ==
    \A e \in Entities : \A out \in SaveOutcomes(e) :
        LET existing == IF e.id # NULL THEN Get(rows, e.id) ELSE NoRow
        IN  IF ~out.ok THEN out.rows = rows
            ELSE IF existing # NoRow
            THEN /\ Cardinality(out.rows) = Cardinality(rows)
                 /\ out.rows \ {out.ret} = rows \ {existing}
                 /\ out.ret.id = existing.id
                 /\ out.ret.created_at = existing.created_at
                 /\ \A c \in Columns \ {"id", "created_at", "updated_at"} : out.ret[c] = e[c]
            ELSE /\ Cardinality(out.rows) = Cardinality(rows) + 1
                 /\ rows \subseteq out.rows

\* C9 witness: a save has returned with two records stored, one of them
\* updated now, later than it was created.
C9_Witness ==
    /\ lastOp.op = "save" /\ lastOp.ok
    /\ Cardinality(rows) = 2
    /\ \E r \in rows : r.updated_at = now /\ r.updated_at > r.created_at

IsQuery(c) == c.op \in {"find_all", "find_by"}

\* C10: find_all and find_by return records sorted by created_at descending,
\* and the same query repeated with no write in between returns the same
\* sequence (ties are broken by id).
C10_StableOrder ==
    [][ IsQuery(lastOp') =>
          /\ \A a, b \in 1..Len(lastOp'.list) :
                a < b => lastOp'.list[a].created_at >= lastOp'.list[b].created_at
          /\ (lastOp.op = lastOp'.op /\ lastOp.opt = lastOp'.opt /\ lastOp.kw = lastOp'.kw)
                => lastOp'.list = lastOp.list ]_vars

\* C11: find_deleted(limit, offset) returns only stored records whose
\* deleted_at is non-null, sorted by deleted_at descending; count_deleted()
\* is the number of such records (the length of an unlimited find_deleted);
\* and a soft-deleted record that is restored is in no find_deleted result
\* and no longer counted.
C11_FindDeletedOnlyDeleted ==
    /\ \A l \in Limits, o \in Offsets : \A list \in find_deleted(rows, l, o) :
          /\ \A j \in 1..Len(list) : list[j] \in rows /\ list[j].deleted_at # NULL
          /\ \A a, b \in 1..Len(list) : a < b => list[a].deleted_at >= list[b].deleted_at
    /\ count_deleted(rows) = Cardinality({ r \in rows : is_deleted(r) })
    /\ \A list \in find_deleted(rows, DefaultLimit, 0) : Len(list) = count_deleted(rows)
    /\ \A i \in Ids :
          (Get(rows, i) # NoRow /\ is_deleted(Get(rows, i))) =>
              LET out == RestoreByIdOutcome(i)
              IN  /\ \A list \in find_deleted(out.rows, DefaultLimit, 0) :
                        \A j \in 1..Len(list) : list[j].id # i
                  /\ count_deleted(out.rows) = count_deleted(rows) - 1

\* C11 witness: a restore has just returned True while another record is
\* still soft-deleted: find_deleted returns that one only.
C11_Witness ==
    /\ lastOp.op = "restore_by_id" /\ lastOp.flag
    /\ Cardinality(rows) = 2
    /\ count_deleted(rows) = 1
    /\ \E r \in rows : r.deleted_at = NULL /\ r.updated_at = now /\ r.updated_at > r.created_at

\* C12: for an id that is not in the store, find_by_id returns None (with
\* and without include_deleted), update_by_id returns None, delete_by_id
\* returns False (soft and hard) and restore_by_id returns False; none of
\* them raises and each leaves the store as it was.
C12_AbsentIdIsNoOp ==
    \A i \in Ids :
        Get(rows, i) = NoRow =>
            /\ find_by_id(rows, i, FALSE) = NoRow
            /\ find_by_id(rows, i, TRUE) = NoRow
            /\ \A u \in Updates :
                  LET out == UpdateByIdOutcome(i, u)
                  IN  out.ok /\ out.ret = NoRow /\ out.rows = rows
            /\ \A h \in BOOLEAN :
                  LET out == DeleteByIdOutcome(i, h)
                  IN  out.ok /\ ~out.flag /\ out.rows = rows
            /\ LET out == RestoreByIdOutcome(i)
               IN  out.ok /\ ~out.flag /\ out.rows = rows

\* C12 witness: a hard delete_by_id has returned False, its id being absent,
\* over a store that holds records, one of them soft-deleted.
C12_Witness ==
    /\ lastOp.op = "delete_by_id" /\ lastOp.opt /\ lastOp.ok /\ ~lastOp.flag
    /\ rows # {}
    /\ \E r \in rows : is_deleted(r)

\* C13: restore_by_id(id) on a stored record that is not soft-deleted returns
\* False without raising and leaves that record and every other record as
\* they were.
C13_RestoreOfActiveIsNoOp ==
    \A i \in Ids :
        (Get(rows, i) # NoRow /\ ~is_deleted(Get(rows, i))) =>
            LET out == RestoreByIdOutcome(i)
            IN  /\ out.ok /\ ~out.flag
                /\ out.rows = rows
                /\ Get(out.rows, i) = Get(rows, i)

\* C13 witness: a restore_by_id has returned False while every id is stored
\* and active: the id it was given is a record that is not soft-deleted.
C13_Witness ==
    /\ lastOp.op = "restore_by_id" /\ lastOp.ok /\ ~lastOp.flag
    /\ \A i \in Ids : Get(rows, i) # NoRow /\ ~is_deleted(Get(rows, i))

\* C14: delete_by(filters) is a soft delete: every record it matches stays
\* retrievable through find_by_id(id, include_deleted=True) with a non-null
\* deleted_at, and it reports a positive count exactly when it matched one.
C14_DeleteByIsSoft ==
    [][ lastOp'.op = "delete_by" =>
          /\ lastOp'.ok
          /\ lastOp'.flag = (\E r \in rows : Matches(r, lastOp'.kw))
          /\ \A r \in rows :
                Matches(r, lastOp'.kw) =>
                    /\ find_by_id(rows', r.id, TRUE) # NoRow
                    /\ find_by_id(rows', r.id, TRUE).deleted_at # NULL ]_vars

\* C15: find_by ignores a filter key that is no attribute of the entity
\* class: for every filters F, find_by(**F, nickname=v) can return exactly
\* what find_by(**F) can return, and so can find_one_by; neither raises.
C15_UnknownKeyIgnored ==
    /\ \A f \in Filters, b \in BOOLEAN :
          FindByResults(rows, WithUnknown(f), b) = FindByResults(rows, f, b)
    /\ lastOp.op = "find_by" => lastOp.ok

\* C15 witness: find_by(enabled=.., nickname=1) has returned one of two
\* stored records: the known key filtered, the unknown one did not.
C15_Witness ==
    /\ lastOp.op = "find_by" /\ lastOp.ok
    /\ DOMAIN lastOp.kw = {"enabled", UnknownKey}
    /\ Len(lastOp.list) = 1
    /\ Cardinality(rows) = 2

\* C16: in every reachable state count() with no filters is the number of
\* records whose deleted_at is None, which is the length of an unlimited
\* find_all, and count() + count_deleted() is the number of stored records.
C16_CountExcludesDeleted ==
    /\ count(rows, <<>>) = Cardinality({ r \in rows : r.deleted_at = NULL })
    /\ \A list \in FindAllResults(rows, DefaultLimit, 0, FALSE) : Len(list) = count(rows, <<>>)
    /\ count(rows, <<>>) + count_deleted(rows) = Cardinality(rows)

\* C17: once a record is created its created_at never changes: no save,
\* update_by_id, update_by, soft delete_by_id or restore_by_id call leaves a
\* stored record with a created_at other than the one it had.
C17_CreatedAtImmutable ==
    [][ \A r \in rows : \A q \in rows' : q.id = r.id => q.created_at = r.created_at ]_vars

\* C18: every session a repository call acquires is closed by the time the
\* call ends, however it ends (return, exception of the body, failure of
\* commit or rollback, cancellation of the calling task): the number of
\* open sessions is back at its value before the call.
C18_SessionsClosed ==
    sess.pc = "ended" => sess.open = sess.before

\* C19: for PostgreSQLConnection and DynamoDBConnection, connect() on a
\* connected connection changes no state, and a connect() that fails leaves
\* the connection disconnected (is_connected() / health_check() false) and
\* raises instead of returning normally.
C19_ConnectContract ==
    [][ /\ (lastOp'.op = "pg_connect" /\ PgIsConnected(pg)) => pg' = pg
        /\ (lastOp'.op = "dy_connect" /\ DyHealthCheck(dy)) => dy' = dy
        /\ (lastOp'.op \in {"pg_connect", "dy_connect"} /\ lastOp'.opt) =>
              /\ ~lastOp'.ok
              /\ ~PgIsConnected(pg') \/ lastOp'.op # "pg_connect"
              /\ ~DyHealthCheck(dy') \/ lastOp'.op # "dy_connect" ]_vars

\* C20: in MemoryConnection, after any sequence of insert, insert_many,
\* update and delete calls, no table holds two records with the same id.
C20_MemoryIdsUnique ==
    \A t \in DOMAIN mem.tables :
        \A a, b \in 1..Len(mem.tables[t]) :
            a # b => mem.tables[t][a].id # mem.tables[t][b].id


\* C21: for the same records in the same scan order, the same filter and any
\* skip >= 0 and limit >= 0, DynamoDBConnection.find_many and
\* MemoryConnection.find_many return the same list, the slice
\* matching[skip : skip + limit] of the matching records, which is never
\* longer than limit.
C21_FindManyAgree ==
    \A f \in MemFilters, s \in MemSkips, l \in MemLimits :
        LET m == MemFindMany(f, s, l)
            d == DyFindMany(MemList(MemTable), f, s, l)
        IN  /\ d = m
            /\ m = PySlice(MemMatching(MemList(MemTable), f), s, l)
            /\ Len(d) <= l /\ Len(m) <= l


\* C22: records inserted into a MemoryConnection stay stored for the life of
\* the connection object: across disconnect() and connect(), find_by_id
\* returns every record it returned before.
C22_RecordsOutliveDisconnect ==
    [][ lastOp'.op \in {"mem_connect", "mem_disconnect"} =>
            \A i \in Ids : MemFindById(mem, i) # NoRecord =>
                              MemFindById(mem', i) = MemFindById(mem, i) ]_vars


\* C23: when the underlying store fails for a reason other than the record
\* being absent, DynamoDBConnection.find_by_id, find_one, find_many, update,
\* delete, count and exists raise an error to the caller: none of them
\* returns normally from a request the store failed.
C23_StoreFailureRaises ==
    (lastOp.op \in DyLookups /\ lastOp.opt) => ~lastOp.ok


\* C24: find_enabled_users(skip, limit) and find_disabled_users(skip, limit)
\* are paginated: each returns at most limit users, all with the requested
\* enabled value, and as many as are left of the matching active users after
\* the first skip of them.
C24_EnabledUsersPaginated ==
    lastOp.op \in {"find_enabled_users", "find_disabled_users"} =>
        LET matching == Cardinality(Select(rows, [enabled |-> lastOp.opt], FALSE))
            left     == IF matching > lastOp.kw.skip THEN matching - lastOp.kw.skip ELSE 0
        IN  /\ Len(lastOp.list) <= lastOp.kw.limit
            /\ Len(lastOp.list) = (IF left < lastOp.kw.limit THEN left ELSE lastOp.kw.limit)
            /\ \A j \in 1..Len(lastOp.list) : lastOp.list[j].enabled = lastOp.opt


\* C25: enable_user(id) / disable_user(id) on a stored user return the user
\* with enabled set to True / False, leave every other column of that user
\* except updated_at and every other user unchanged, and leave the table
\* exactly as it is when the flag already has that value (so a second call
\* changes nothing); for a missing id they return None and change nothing.
C25_EnableSetsOnlyFlag ==
    \A i \in Ids : \A b \in BOOLEAN :
        LET out == IF b THEN EnableUserOutcome(i) ELSE DisableUserOutcome(i)
            old == Get(rows, i)
        IN  IF old = NoRow
            THEN out.ok /\ out.ret = NoRow /\ out.rows = rows
            ELSE /\ out.ok
                 /\ out.ret = Get(out.rows, i)
                 /\ out.ret.enabled = b
                 /\ \A c \in Columns \ {"enabled", "updated_at"} : out.ret[c] = old[c]
                 /\ out.rows \ {out.ret} = rows \ {old}
                 /\ (old.enabled = b => out.rows = rows)

\* C25 witness: disable_user has just changed the flag of a user stored
\* earlier, next to another stored user.
C25_Witness ==
    /\ lastOp.op = "disable_user" /\ lastOp.flag
    /\ \E r, q \in rows :
          /\ r.id # q.id
          /\ ~r.enabled /\ r.updated_at = now /\ r.created_at < now


\* C26: save_all(entities) is all-or-nothing.  If an entity of the batch has
\* the email or the id of a stored record or of another entity of the batch,
\* the call raises; whenever it raises, the table is as it was.  When it
\* returns, the result has one record per entity in input order, each stored,
\* with the entity's email, enabled flag and id (when it had one) and with
\* id, created_at and updated_at assigned, and the table holds the old
\* records and these.
C26_SaveAllAtomic ==
    \A batch \in UserBatches : \A out \in SaveAllOutcomes(batch) :
        LET n   == Len(batch)
            bad == \/ \E j \in 1..n : \E r \in rows :
                         r.email = batch[j].email \/ r.id = batch[j].id
                   \/ \E j, k \in 1..n :
                         /\ j # k
                         /\ \/ batch[j].email = batch[k].email
                            \/ (batch[j].id # NULL /\ batch[j].id = batch[k].id)
        IN  /\ bad => ~out.ok
            /\ ~out.ok => out.rows = rows
            /\ out.ok =>
                 /\ Len(out.list) = n
                 /\ \A j \in 1..n :
                       /\ out.list[j] \in out.rows
                       /\ out.list[j].email = batch[j].email
                       /\ out.list[j].enabled = batch[j].enabled
                       /\ batch[j].id # NULL => out.list[j].id = batch[j].id
                       /\ out.list[j].id # NULL
                       /\ out.list[j].created_at # NULL /\ out.list[j].updated_at # NULL
                 /\ out.rows = rows \cup { out.list[j] : j \in 1..n }
                 /\ Cardinality(out.rows) = Cardinality(rows) + n

\* C26 witness: save_all has just raised against a table that holds one
\* record, and holds it still.
C26_Witness ==
    /\ lastOp.op = "save_all" /\ ~lastOp.ok
    /\ Cardinality(rows) = 1


\* C27: in every reachable state of PostgreSQLConnection, _connected is true
\* exactly when _engine and _session_factory are both set; a connection that
\* is not connected holds no _engine, so that connect() attempts the
\* connection again; and right after a connect() that returned normally
\* get_session() does not raise RuntimeError.
C27_PgStateAgrees ==
    /\ pg.connected <=> (pg.engine /\ pg.session_factory)
    /\ ~pg.connected => ~pg.engine
    /\ (lastOp.op = "pg_connect" /\ lastOp.ok) => PgGetSessionOk(pg)


\* C28: existence checks and lookups agree in every reachable state:
\* exists_by_email(x) is True exactly when find_by_email(x) is not None, and
\* exists_by(id=i) is True exactly when exists_by_id(i) is True.
C28_ExistsAgreesWithFind ==
    /\ \A m \in Emails : \A found \in find_by_email(rows, m) :
          exists_by_email(rows, m) <=> (found # NoRow)
    /\ \A i \in Ids : exists_by(rows, [id |-> i]) <=> exists_by_id(rows, i)


\* C29: when two create_user calls with the same email interleave at their
\* awaits, at most one user with that email is ever stored, and the two
\* calls never both return a user: a call that passed the check and saves
\* second ends with the uniqueness error of the commit.
C29_OneUserPerEmail ==
    /\ \A m \in Emails : Cardinality({ r \in rows : r.email = m }) <= 1
    /\ \A p, q \in Callers :
          (p # q /\ calls[p].pc = "returned" /\ calls[q].pc = "returned")
              => calls[p].email # calls[q].email

\* C29 witness: both calls passed the check with the same email; one has
\* returned its user, the other has raised at its save.
C29_Witness ==
    /\ calls[1].pc = "returned" /\ calls[2].pc = "raised"
    /\ calls[1].email = calls[2].email
    /\ \E r \in rows : r.email = calls[1].email


\* C30: delete_by and update_by drop filter keys that are no attribute of
\* the entity class, so a call whose filter keys are all unrecognized runs as
\* the call with no filter does: delete_by removes every record, active and
\* soft-deleted, and returns their number; update_by, when it returns, has
\* set the updates on every record and returns their number.
C30_UnknownFilterRunsUnfiltered ==
    LET unknown == WithUnknown(<<>>)
        del     == DeleteByOutcome(unknown)
    IN  /\ del = DeleteByOutcome(<<>>)
        /\ del.ok /\ del.rows = {} /\ del.n = Cardinality(rows)
        /\ \A u \in Updates :
              LET upd == UpdateByOutcome(unknown, u)
              IN  /\ upd = UpdateByOutcome(<<>>, u)
                  /\ upd.ok =>
                        /\ upd.n = Cardinality(rows)
                        /\ { r.id : r \in upd.rows } = { r.id : r \in rows }
                        /\ \A r \in upd.rows : \A c \in DOMAIN u : r[c] = u[c]

\* C30 witness: update_by with an unrecognized filter key only has just
\* rewritten both stored records, one of them soft-deleted before.
C30_Witness ==
    /\ lastOp.op = "update_by" /\ lastOp.ok /\ lastOp.flag
    /\ DOMAIN lastOp.kw = {UnknownKey}
    /\ Cardinality(rows) = 2
    /\ \A r \in rows : r.updated_at = now /\ r.created_at = now
    /\ \E r \in rows : r.deleted_at # NULL /\ r.deleted_at < now
    /\ \E r \in rows : r.deleted_at = NULL

====
